---- MODULE Spec2Model ----
(***************************************************************************)
(* Booking availability, booking lifecycle and payment reconciliation of   *)
(* the vendor booking platform (server/services, server/controllers,       *)
(* server/routes).                                                         *)
(*                                                                         *)
(* Documents are records; a collection is a sequence whose index is the    *)
(* document id (Firestore add() never reuses an id, nothing deletes a      *)
(* booking or a transaction).  Timestamps of bookings are integers that    *)
(* stand for the ISO strings the code turns into Date values; 0 stands for *)
(* an absent id, time or amount, "" for an absent string.  The wall clock   *)
(* is no state of the program: an operation that reads it (new Date())     *)
(* takes the reading as an input, and the createdAt, updatedAt and         *)
(* cancelledAt stamps, which no operation reads back, are left out.        *)
(* Money in major units (dollars) is counted in units of 1/10000 dollar,   *)
(* so that a whole dollar is 10000, a cent is 100, the conversion to       *)
(* cents, Math.round(amount * 100), divides and rounds, and 5% of a whole  *)
(* number of cents is a whole number of units.                             *)
(***************************************************************************)
EXTENDS Integers, Sequences, FiniteSets, TLC

\* ------------------------------------------------------------------ bounds
MaxBookings == 2
MaxTime == 3
MaxNow == 2
MaxPayBookings == 1
MaxIntents == 2
MaxTransactions == 4
MaxRefunds == 2
MaxInflight == 2
MaxListingBookings == 1
MaxCreateTime == 4
MaxFeeCents == 200
MaxFeeIntents == 1
MaxFeeTransactions == 1
MaxFrameTransactions == 2

\* ------------------------------------------------------------- input sets
ListingIds == {1, 2}
StartTimes == 1..(MaxTime - 1)
EndTimes == 2..MaxTime
Clock == 1..MaxNow
\* Times of create requests where an interval has room for one inside it.
CreateTimes == 1..MaxCreateTime
Customers == {"u1"}
Requesters == {"v1", "v2", "u1"}
Statuses == {"pending", "confirmed", "cancelled", "completed"}
PaymentStatuses == {"pending", "paid", "failed", "refunded", "partially_refunded"}
Reasons == {"changed plans"}
\* Amounts a payment or refund request carries; 0 is a request without one.
PayAmounts == {0, 10000}
RefundAmounts == {0, 5000, 10000}
\* The fields of a listing update that the model follows; "" and 0 stand for a
\* field the request does not carry.
ListingBodies ==
  [status : {"active", "inactive"}, price : {0}]
    \cup [status : {""}, price : {20000}]
WebhookTypes ==
  {"payment_intent.succeeded", "payment_intent.payment_failed", "charge.refunded"}
BookingIds == 1..MaxBookings

Slots == 1..MaxInflight

VARIABLES listings, bookings, transactions, stripe, inflight, last

vars == <<listings, bookings, transactions, stripe, inflight, last>>

\* ---------------------------------------------------------------- helpers
\* FirebaseService.getDocument: the document, or null when it does not exist.
BookingExists(id) == id \in 1..Len(bookings)

ListingExists(id) == id \in DOMAIN listings /\ listings[id].exists

\* What the operation that ran last answered: its name and "ok" or the error.
Outcome(op, result) == [op |-> op, result |-> result]

\* The three-clause overlap test of checkAvailability and updateBooking.
Overlaps(start, end, bookingStart, bookingEnd) ==
  \/ (start >= bookingStart /\ start < bookingEnd)
  \/ (end > bookingStart /\ end <= bookingEnd)
  \/ (start <= bookingStart /\ end >= bookingEnd)

\* The query without its status condition: every booking of the listing.
ActiveBookingsOf_NoStatusFilter(listingId) ==
  {i \in 1..Len(bookings) : bookings[i].listingId = listingId}

\* queryDocuments('bookings', listingId ==, status in [pending, confirmed])
ActiveBookingsOf(listingId) ==
  {i \in 1..Len(bookings) :
     /\ bookings[i].listingId = listingId
     /\ bookings[i].status \in {"pending", "confirmed"}}

\* BookingService.checkAvailability: "InvalidRangeError" when start >= end,
\* else FALSE on an overlap with an active booking of the listing, else TRUE.
checkAvailability(listingId, startTime, endTime) ==
  IF startTime >= endTime THEN "InvalidRangeError"
  ELSE IF \E i \in ActiveBookingsOf(listingId) :
            Overlaps(startTime, endTime, bookings[i].startTime, bookings[i].endTime)
       THEN "unavailable"
       ELSE "available"

\* The document a create writes: BookingService.createBooking takes the
\* status from the request when it carries one, the controller and the route
\* always write pending (status = "").
NewBooking(listingId, listing, startTime, endTime, userId, status) ==
  [listingId |-> listingId,
   vendorId |-> listing.vendorId,
   userId |-> userId,
   startTime |-> startTime,
   endTime |-> endTime,
   status |-> IF status = "" THEN "pending" ELSE status,
   totalAmount |-> listing.price,
   paymentStatus |-> "pending",
   stripePaymentIntentId |-> 0,
   stripePaymentId |-> 0,
   refundId |-> 0,
   cancelledBy |-> "",
   cancelReason |-> ""]

\* The error BookingService.createBooking throws before it writes, or "ok".
SvcCreateCheck(listingId, startTime, endTime) ==
  IF ~ListingExists(listingId) THEN "NotFoundError"
  ELSE IF listings[listingId].status /= "active" THEN "InactiveResourceError"
  ELSE LET a == checkAvailability(listingId, startTime, endTime)
       IN  IF a = "InvalidRangeError" THEN a
           ELSE IF a = "unavailable" THEN "ConflictError"
           ELSE "ok"

\* A BookingService.createBooking call that is suspended at one of its
\* awaits holds its request and the listing it read; Idle is a free slot.
Idle == [pc |-> "idle"]

\* ------------------------------------------------------------------- Init
InitListings ==
  [l \in ListingIds |->
     [exists |-> TRUE,
      vendorId |-> IF l = 1 THEN "v1" ELSE "v2",
      status |-> "active",
      price |-> 10000]]

Init ==
  /\ listings = InitListings
  /\ bookings = <<>>
  /\ transactions = <<>>
  /\ stripe = [intents |-> <<>>, refunds |-> <<>>]
  /\ inflight = [p \in Slots |-> Idle]
  /\ last = Outcome("init", "ok")

\* ---------------------------------------------------------------- actions
\* BookingService.createBooking, run without interruption.
SvcCreateBooking(listingId, startTime, endTime, userId, status) ==
  LET r == SvcCreateCheck(listingId, startTime, endTime)
  IN  /\ r = "ok" => Len(bookings) < MaxBookings
      /\ IF r = "ok"
         THEN /\ bookings' = Append(bookings,
                     NewBooking(listingId, listings[listingId], startTime, endTime,
                                userId, status))
              /\ last' = Outcome("create", "ok")
         ELSE /\ bookings' = bookings
              /\ last' = Outcome("create", r)
      /\ UNCHANGED <<listings, transactions, stripe, inflight>>

\* createBooking up to its first await: getDocument('listings', listingId)
\* answers and the listing is checked.
SvcCreateLoad(p, listingId, startTime, endTime, userId, status) ==
  /\ inflight[p].pc = "idle"
  /\ IF ~ListingExists(listingId)
     THEN /\ last' = Outcome("create", "NotFoundError")
          /\ inflight' = inflight
     ELSE IF listings[listingId].status /= "active"
     THEN /\ last' = Outcome("create", "InactiveResourceError")
          /\ inflight' = inflight
     ELSE /\ inflight' = [inflight EXCEPT ![p] =
                 [pc |-> "loaded", listingId |-> listingId,
                  listing |-> listings[listingId], startTime |-> startTime,
                  endTime |-> endTime, userId |-> userId, status |-> status]]
          /\ last' = last
  /\ UNCHANGED <<listings, bookings, transactions, stripe>>

\* createBooking up to its second await: the query of checkAvailability
\* answers with the bookings stored at that moment.
SvcCreateQuery(p) ==
  /\ inflight[p].pc = "loaded"
  /\ LET q == inflight[p]
         a == checkAvailability(q.listingId, q.startTime, q.endTime)
     IN  IF a = "available"
         THEN /\ inflight' = [inflight EXCEPT ![p].pc = "checked"]
              /\ last' = last
         ELSE /\ inflight' = [inflight EXCEPT ![p] = Idle]
              /\ last' = Outcome("create",
                   IF a = "unavailable" THEN "ConflictError" ELSE a)
  /\ UNCHANGED <<listings, bookings, transactions, stripe>>

\* createBooking's last step: createDocument('bookings', newBooking).
SvcCreateWrite(p) ==
  /\ inflight[p].pc = "checked"
  /\ Len(bookings) < MaxBookings
  /\ LET q == inflight[p]
     IN  bookings' = Append(bookings,
           NewBooking(q.listingId, q.listing, q.startTime, q.endTime,
                      q.userId, q.status))
  /\ inflight' = [inflight EXCEPT ![p] = Idle]
  /\ last' = Outcome("create", "ok")
  /\ UNCHANGED <<listings, transactions, stripe>>

\* createBooking of bookingController.js: the listing must exist and be
\* active; neither the range nor the availability is looked at.
CtlCreateBooking(listingId, startTime, endTime, userId) ==
  LET r == IF ~ListingExists(listingId) THEN "NotFoundError"
           ELSE IF listings[listingId].status /= "active"
                THEN "InactiveResourceError"
           ELSE "ok"
  IN  /\ r = "ok" => Len(bookings) < MaxBookings
      /\ IF r = "ok"
         THEN /\ bookings' = Append(bookings,
                     NewBooking(listingId, listings[listingId], startTime, endTime,
                                userId, ""))
              /\ last' = Outcome("create", "ok")
         ELSE /\ bookings' = bookings
              /\ last' = Outcome("create", r)
      /\ UNCHANGED <<listings, transactions, stripe, inflight>>

\* validateBookingData, then the handler of router.post('/') of
\* routes/bookings.js: the range is validated and the listing must exist;
\* neither its status nor the availability is looked at.
RouteCreateBooking(listingId, startTime, endTime, userId) ==
  LET r == IF startTime >= endTime THEN "InvalidRangeError"
           ELSE IF ~ListingExists(listingId) THEN "NotFoundError"
           ELSE "ok"
  IN  /\ r = "ok" => Len(bookings) < MaxBookings
      /\ IF r = "ok"
         THEN /\ bookings' = Append(bookings,
                     NewBooking(listingId, listings[listingId], startTime, endTime,
                                userId, ""))
              /\ last' = Outcome("create", "ok")
         ELSE /\ bookings' = bookings
              /\ last' = Outcome("create", r)
      /\ UNCHANGED <<listings, transactions, stripe, inflight>>

\* The fields of an update request that the model follows; "" and 0 stand
\* for a field the request does not carry.
UpdateBodies ==
  [status : Statuses, startTime : {0}, endTime : {0}, paymentStatus : {""}]
    \cup [status : {""}, startTime : {0} \cup StartTimes,
          endTime : {0} \cup EndTimes, paymentStatus : {""}]

\* Update requests that carry a paymentStatus, a field outside the allow-list.
PaymentUpdateBodies ==
  [status : {""}, startTime : {0}, endTime : {0}, paymentStatus : {"paid", "refunded"}]

\* updateData of updateBooking in bookingController.js and of router.put:
\* only the allow-listed fields of the request body are copied.
AllowListed(body) == [body EXCEPT !.paymentStatus = ""]

\* DocumentReference.update(updateData): the fields given replace the stored
\* ones, the others stay.
ApplyUpdate(b, body) ==
  [b EXCEPT !.status = IF body.status = "" THEN @ ELSE body.status,
            !.startTime = IF body.startTime = 0 THEN @ ELSE body.startTime,
            !.endTime = IF body.endTime = 0 THEN @ ELSE body.endTime,
            !.paymentStatus = IF body.paymentStatus = "" THEN @
                              ELSE body.paymentStatus]

\* The stored value of the field `id` of booking document i: documents are
\* written without one (createDocument adds `data` as given and puts the id
\* only on the copy it returns), so it is absent.
DocIdField(i) == 0

\* queryDocuments('bookings', listingId ==, status in [...], id != bookingId):
\* Firestore's != matches only documents in which the field exists.
OtherActiveBookingsOf(listingId, bookingId) ==
  {i \in ActiveBookingsOf(listingId) :
     DocIdField(i) /= 0 /\ DocIdField(i) /= bookingId}

\* The error BookingService.updateBooking throws before it writes, or "ok".
SvcUpdateCheck(bookingId, body) ==
  IF ~BookingExists(bookingId) THEN "NotFoundError"
  ELSE IF body.startTime /= 0 \/ body.endTime /= 0
  THEN LET b == bookings[bookingId]
           start == IF body.startTime /= 0 THEN body.startTime ELSE b.startTime
           end == IF body.endTime /= 0 THEN body.endTime ELSE b.endTime
       IN  IF start >= end THEN "InvalidRangeError"
           ELSE IF \E i \in OtherActiveBookingsOf(b.listingId, bookingId) :
                     Overlaps(start, end, bookings[i].startTime, bookings[i].endTime)
                THEN "ConflictError"
           ELSE "ok"
  ELSE "ok"

\* BookingService.updateBooking: no requester is looked at.
SvcUpdateBooking(bookingId, body) ==
  LET r == SvcUpdateCheck(bookingId, body)
  IN  /\ bookings' = IF r = "ok"
                     THEN [bookings EXCEPT ![bookingId] = ApplyUpdate(@, body)]
                     ELSE bookings
      /\ last' = Outcome("update", r)
      /\ UNCHANGED <<listings, transactions, stripe, inflight>>

\* The error updateBooking of bookingController.js and router.put('/:id')
\* answer with before they write, or "ok".
CtlUpdateCheck(bookingId, requesterId) ==
  IF ~BookingExists(bookingId) THEN "NotFoundError"
  ELSE IF bookings[bookingId].vendorId /= requesterId THEN "AuthorizationError"
  ELSE "ok"

\* updateBooking of bookingController.js: the allow-listed fields are written
\* as given.
CtlUpdateBooking(bookingId, body, requesterId) ==
  LET r == CtlUpdateCheck(bookingId, requesterId)
  IN  /\ bookings' = IF r = "ok"
                     THEN [bookings EXCEPT ![bookingId] = ApplyUpdate(@, AllowListed(body))]
                     ELSE bookings
      /\ last' = Outcome("update", r)
      /\ UNCHANGED <<listings, transactions, stripe, inflight>>

\* router.put('/:id') of routes/bookings.js.
RouteUpdateBooking(bookingId, body, requesterId) ==
  LET r == CtlUpdateCheck(bookingId, requesterId)
  IN  /\ bookings' = IF r = "ok"
                     THEN [bookings EXCEPT ![bookingId] = ApplyUpdate(@, AllowListed(body))]
                     ELSE bookings
      /\ last' = Outcome("update", r)
      /\ UNCHANGED <<listings, transactions, stripe, inflight>>

\* The error BookingService.cancelBooking throws before it writes, or "ok".
SvcCancelCheck(bookingId, userId, now) ==
  IF ~BookingExists(bookingId) THEN "NotFoundError"
  ELSE LET b == bookings[bookingId]
       IN  IF b.vendorId /= userId /\ b.userId /= userId THEN "AuthorizationError"
           ELSE IF b.status = "cancelled" THEN "AlreadyCancelledError"
           ELSE IF b.startTime < now THEN "PastBookingError"
           ELSE "ok"

\* BookingService.cancelBooking; now is what new Date() reads.
SvcCancelBooking(bookingId, userId, cancelReason, now) ==
  LET r == SvcCancelCheck(bookingId, userId, now)
  IN  /\ bookings' = IF r = "ok"
                     THEN [bookings EXCEPT ![bookingId] =
                             [@ EXCEPT !.status = "cancelled",
                                       !.cancelReason = cancelReason,
                                       !.cancelledBy = userId]]
                     ELSE bookings
      /\ last' = Outcome("cancel", r)
      /\ UNCHANGED <<listings, transactions, stripe, inflight>>

\* The error cancelBooking of bookingController.js answers with before it
\* writes, or "ok": only the customer who made the booking passes.
CtlCancelCheck(bookingId, requesterId, now) ==
  IF ~BookingExists(bookingId) THEN "NotFoundError"
  ELSE LET b == bookings[bookingId]
       IN  IF b.userId /= requesterId THEN "AuthorizationError"
           ELSE IF b.status = "cancelled" THEN "AlreadyCancelledError"
           ELSE IF b.startTime < now THEN "PastBookingError"
           ELSE "ok"

\* cancelBooking of bookingController.js: writes status and updatedAt only.
CtlCancelBooking(bookingId, requesterId, now) ==
  LET r == CtlCancelCheck(bookingId, requesterId, now)
  IN  /\ bookings' = IF r = "ok"
                     THEN [bookings EXCEPT ![bookingId].status = "cancelled"]
                     ELSE bookings
      /\ last' = Outcome("cancel", r)
      /\ UNCHANGED <<listings, transactions, stripe, inflight>>

\* ------------------------------------------------------- listing actions
\* The bookings query of deleteListing without its status condition.
NonCancelledBookingsOf_AnyStatus(listingId) ==
  {i \in 1..Len(bookings) : bookings[i].listingId = listingId}

\* bookings.where('listingId', '==', id).where('status', '!=', 'cancelled')
NonCancelledBookingsOf(listingId) ==
  {i \in 1..Len(bookings) :
     /\ bookings[i].listingId = listingId
     /\ bookings[i].status /= "cancelled"}

\* The error updateListing answers with before it writes, or "ok".
UpdateListingCheck(listingId, requesterId) ==
  IF ~ListingExists(listingId) THEN "NotFoundError"
  ELSE IF listings[listingId].vendorId /= requesterId THEN "AuthorizationError"
  ELSE "ok"

\* updateListing of the listing controller and router.put('/:id') of
\* routes/listings.js: the allow-listed fields are written as given.
UpdateListing(listingId, body, requesterId) ==
  LET r == UpdateListingCheck(listingId, requesterId)
  IN  /\ listings' = IF r = "ok"
                     THEN [listings EXCEPT ![listingId] =
                            [@ EXCEPT !.status = IF body.status = "" THEN @
                                                 ELSE body.status,
                                      !.price = IF body.price = 0 THEN @
                                                ELSE body.price]]
                     ELSE listings
      /\ last' = Outcome("updateListing", r)
      /\ UNCHANGED <<bookings, transactions, stripe, inflight>>

\* The error deleteListing answers with before it deletes, or "ok".
DeleteListingCheck(listingId, requesterId) ==
  IF ~ListingExists(listingId) THEN "NotFoundError"
  ELSE IF listings[listingId].vendorId /= requesterId THEN "AuthorizationError"
  ELSE IF NonCancelledBookingsOf(listingId) /= {} THEN "HasActiveBookingsError"
  ELSE "ok"

\* deleteListing of the listing controller and router.delete('/:id') of
\* routes/listings.js up to the answer of the bookings query: the request
\* is answered with an error, or goes on to its last await.
DeleteListingQuery(p, listingId, requesterId) ==
  LET r == DeleteListingCheck(listingId, requesterId)
  IN  /\ inflight[p].pc = "idle"
      /\ IF r = "ok"
         THEN /\ inflight' = [inflight EXCEPT ![p] =
                     [pc |-> "deleting", listingId |-> listingId]]
              /\ last' = last
         ELSE /\ inflight' = inflight
              /\ last' = Outcome("deleteListing", r)
      /\ UNCHANGED <<listings, bookings, transactions, stripe>>

\* deleteListing's last step: listingRef.delete().
DeleteListingDelete(p) ==
  /\ inflight[p].pc = "deleting"
  /\ listings' = [listings EXCEPT ![inflight[p].listingId].exists = FALSE]
  /\ inflight' = [inflight EXCEPT ![p] = Idle]
  /\ last' = Outcome("deleteListing", "ok")
  /\ UNCHANGED <<bookings, transactions, stripe>>

\* ------------------------------------------------------- payment actions
\* Math.round(amount * 100): a major-unit amount in cents, half a cent up.
ToCents(amount) == (amount + 50) \div 100

\* createPaymentIntent of paymentController.js up to the processor call: the
\* error it answers with, or "ok".
CreateIntentCheck(bookingId, amount, requesterId) ==
  IF bookingId = 0 \/ amount = 0 THEN "ValidationError"
  ELSE IF ~BookingExists(bookingId) THEN "NotFoundError"
  ELSE IF /\ bookings[bookingId].vendorId /= requesterId
          /\ bookings[bookingId].userId /= requesterId
       THEN "AuthorizationError"
  ELSE "ok"

\* A createPaymentIntent that marks the booking pending before it calls the
\* processor.
CreatePaymentIntent_PendingBeforeCall(bookingId, amount, requesterId, accepted) ==
  LET r == CreateIntentCheck(bookingId, amount, requesterId)
  IN  /\ (r = "ok" /\ accepted) => Len(stripe.intents) < MaxIntents
      /\ IF r = "ok"
         THEN /\ stripe' = IF accepted
                           THEN [stripe EXCEPT !.intents = Append(@,
                                  [bookingId |-> bookingId,
                                   vendorId |-> bookings[bookingId].vendorId,
                                   amount |-> ToCents(amount),
                                   applicationFee |->
                                     (amount * 5 + 500000) \div 1000000])]
                           ELSE stripe
              /\ bookings' = [bookings EXCEPT ![bookingId] =
                   [@ EXCEPT !.stripePaymentIntentId =
                               IF accepted THEN Len(stripe.intents) + 1 ELSE @,
                             !.paymentStatus = "pending"]]
              /\ last' = Outcome("createPaymentIntent",
                   IF accepted THEN "ok" ELSE "ExternalProcessorError")
         ELSE /\ UNCHANGED <<stripe, bookings>>
              /\ last' = Outcome("createPaymentIntent", r)
      /\ UNCHANGED <<listings, transactions, inflight>>

\* createPaymentIntent of paymentController.js; accepted is whether
\* stripe.paymentIntents.create answers or throws.
CreatePaymentIntent(bookingId, amount, requesterId, accepted) ==
  LET r == CreateIntentCheck(bookingId, amount, requesterId)
  IN  /\ (r = "ok" /\ accepted) => Len(stripe.intents) < MaxIntents
      /\ IF r = "ok" /\ accepted
         THEN /\ stripe' = [stripe EXCEPT !.intents = Append(@,
                   [bookingId |-> bookingId,
                    vendorId |-> bookings[bookingId].vendorId,
                    amount |-> ToCents(amount),
                    applicationFee |-> (amount * 5 + 500000) \div 1000000])]
              /\ bookings' = [bookings EXCEPT ![bookingId] =
                   [@ EXCEPT !.stripePaymentIntentId = Len(stripe.intents) + 1,
                             !.paymentStatus = "pending"]]
              /\ last' = Outcome("createPaymentIntent", "ok")
         ELSE /\ UNCHANGED <<stripe, bookings>>
              /\ last' = Outcome("createPaymentIntent",
                   IF r = "ok" THEN "ExternalProcessorError" ELSE r)
      /\ UNCHANGED <<listings, transactions, inflight>>

\* StripeService.createPaymentIntent: the caller names the booking and the
\* vendor; the intent is created first, and the update of a booking that
\* does not exist then throws and leaves the intent with the processor.
SvcCreatePaymentIntent(bookingId, amount, vendorId, accepted) ==
  /\ accepted => Len(stripe.intents) < MaxIntents
  /\ IF accepted
     THEN /\ stripe' = [stripe EXCEPT !.intents = Append(@,
                 [bookingId |-> bookingId,
                  vendorId |-> vendorId,
                  amount |-> ToCents(amount),
                  applicationFee |-> (amount * 5 + 500000) \div 1000000])]
          /\ IF BookingExists(bookingId)
             THEN /\ bookings' = [bookings EXCEPT ![bookingId] =
                       [@ EXCEPT !.stripePaymentIntentId = Len(stripe.intents) + 1,
                                 !.paymentStatus = "pending"]]
                  /\ last' = Outcome("createPaymentIntent", "ok")
             ELSE /\ bookings' = bookings
                  /\ last' = Outcome("createPaymentIntent", "NotFoundError")
     ELSE /\ UNCHANGED <<stripe, bookings>>
          /\ last' = Outcome("createPaymentIntent", "ExternalProcessorError")
  /\ UNCHANGED <<listings, transactions, inflight>>

\* The Transaction handleSuccessfulPayment and processSuccessfulPayment add
\* for payment intent pi: amount = pi.amount / 100, fee = amount * 0.05.
CompletedTransaction(pi) ==
  LET intent == stripe.intents[pi]
      amount == intent.amount * 100
      fee == intent.amount * 5
  IN  [bookingId |-> intent.bookingId,
       vendorId |-> intent.vendorId,
       amount |-> amount,
       fee |-> fee,
       net |-> amount - fee,
       stripePaymentId |-> pi,
       status |-> "completed"]

\* The writes of a successful payment without the test that the booking
\* exists: the Transaction is added in any case.
ApplySuccessfulPayment_NoExistsCheck(pi) ==
  LET id == stripe.intents[pi].bookingId
  IN  /\ bookings' = IF BookingExists(id)
                     THEN [bookings EXCEPT ![id] =
                            [@ EXCEPT !.paymentStatus = "paid", !.stripePaymentId = pi]]
                     ELSE bookings
      /\ transactions' = Append(transactions, CompletedTransaction(pi))

\* What handleSuccessfulPayment and processSuccessfulPayment write for payment
\* intent pi: the booking named by its metadata becomes paid and one
\* Transaction is added; a missing booking throws before any write.
ApplySuccessfulPayment(pi) ==
  LET id == stripe.intents[pi].bookingId
  IN  IF ~BookingExists(id)
      THEN UNCHANGED <<bookings, transactions>>
      ELSE /\ bookings' = [bookings EXCEPT ![id] =
                [@ EXCEPT !.paymentStatus = "paid", !.stripePaymentId = pi]]
           /\ transactions' = Append(transactions, CompletedTransaction(pi))

\* A failed payment that also cancels the booking.
ApplyFailedPayment_AlsoCancels(pi) ==
  LET id == stripe.intents[pi].bookingId
  IN  /\ bookings' = IF BookingExists(id)
                     THEN [bookings EXCEPT ![id] =
                            [@ EXCEPT !.paymentStatus = "failed",
                                      !.status = "cancelled"]]
                     ELSE bookings
      /\ transactions' = transactions

\* What handleFailedPayment and processFailedPayment write for payment intent
\* pi: update() of a missing document throws and writes nothing.
ApplyFailedPayment(pi) ==
  LET id == stripe.intents[pi].bookingId
  IN  /\ bookings' = IF BookingExists(id)
                     THEN [bookings EXCEPT ![id].paymentStatus = "failed"]
                     ELSE bookings
      /\ transactions' = transactions

\* handleWebhook of paymentController.js for an event about payment intent
\* pi: a bad signature answers 400 and does nothing more; every verified
\* event is acknowledged, whatever its handler did.
HandleWebhook(type, pi, signatureValid) ==
  /\ pi \in 1..Len(stripe.intents)
  /\ IF ~signatureValid
     THEN /\ UNCHANGED <<bookings, transactions>>
          /\ last' = Outcome("webhook", "InvalidSignatureError")
     ELSE \/ /\ type = "payment_intent.succeeded"
             /\ Len(transactions) < MaxTransactions
             /\ ApplySuccessfulPayment(pi)
             /\ last' = Outcome("payment_succeeded", "ok")
          \/ /\ type = "payment_intent.payment_failed"
             /\ ApplyFailedPayment(pi)
             /\ last' = Outcome("payment_failed", "ok")
          \/ /\ type \notin {"payment_intent.succeeded",
                             "payment_intent.payment_failed"}
             /\ UNCHANGED <<bookings, transactions>>
             /\ last' = Outcome("webhook", "ok")
  /\ UNCHANGED <<listings, stripe, inflight>>

\* StripeService.processSuccessfulPayment
ProcessSuccessfulPayment(pi) ==
  /\ pi \in 1..Len(stripe.intents)
  /\ Len(transactions) < MaxTransactions
  /\ ApplySuccessfulPayment(pi)
  /\ last' = Outcome("payment_succeeded",
       IF BookingExists(stripe.intents[pi].bookingId) THEN "ok" ELSE "NotFoundError")
  /\ UNCHANGED <<listings, stripe, inflight>>

\* StripeService.processFailedPayment
ProcessFailedPayment(pi) ==
  /\ pi \in 1..Len(stripe.intents)
  /\ ApplyFailedPayment(pi)
  /\ last' = Outcome("payment_failed",
       IF BookingExists(stripe.intents[pi].bookingId) THEN "ok" ELSE "NotFoundError")
  /\ UNCHANGED <<listings, stripe, inflight>>

\* refundPayment up to the processor call, without its test of paymentStatus.
RefundCheck_NoPaidCheck(bookingId, requesterId) ==
  IF bookingId = 0 THEN "ValidationError"
  ELSE IF ~BookingExists(bookingId) THEN "NotFoundError"
  ELSE IF bookings[bookingId].vendorId /= requesterId THEN "AuthorizationError"
  ELSE IF bookings[bookingId].stripePaymentId = 0 THEN "NoPaymentError"
  ELSE "ok"

\* refundPayment up to the processor call: the error it answers with, or "ok".
RefundCheck(bookingId, requesterId) ==
  IF bookingId = 0 THEN "ValidationError"
  ELSE IF ~BookingExists(bookingId) THEN "NotFoundError"
  ELSE IF bookings[bookingId].vendorId /= requesterId THEN "AuthorizationError"
  ELSE IF bookings[bookingId].stripePaymentId = 0 THEN "NoPaymentError"
  ELSE IF bookings[bookingId].paymentStatus /= "paid" THEN "NotPaidError"
  ELSE "ok"

\* refundAmount of refundPayment: the amount in cents, or 0 (undefined) when
\* the request carries none.
RefundAmount(amount) == IF amount /= 0 THEN ToCents(amount) ELSE 0

\* A paymentStatus that does not depend on the refund amount.
RefundedStatus_AmountIgnored(refundAmount) == "refunded"

\* The paymentStatus refundPayment writes.
RefundedStatus(refundAmount) ==
  IF refundAmount /= 0 THEN "partially_refunded" ELSE "refunded"

\* The Transaction refundPayment adds after it has updated the booking.
RefundTransaction(bookingId, refundAmount) ==
  LET b == bookings[bookingId]
      amount == IF refundAmount /= 0 THEN refundAmount * 100 ELSE b.totalAmount
  IN  [bookingId |-> bookingId,
       vendorId |-> b.vendorId,
       amount |-> amount,
       fee |-> 0,
       net |-> 0 - amount,
       stripePaymentId |-> b.stripePaymentId,
       status |-> "refunded"]

\* refundPayment of paymentController.js; accepted is whether
\* stripe.refunds.create answers or throws.
RefundPayment(bookingId, amount, requesterId, accepted) ==
  LET r == RefundCheck(bookingId, requesterId)
      refundAmount == RefundAmount(amount)
  IN  /\ (r = "ok" /\ accepted)
           => Len(stripe.refunds) < MaxRefunds /\ Len(transactions) < MaxTransactions
      /\ IF r = "ok" /\ accepted
         THEN /\ stripe' = [stripe EXCEPT !.refunds = Append(@,
                   [paymentIntent |-> bookings[bookingId].stripePaymentId,
                    amount |-> refundAmount])]
              /\ bookings' = [bookings EXCEPT ![bookingId] =
                   [@ EXCEPT !.paymentStatus = RefundedStatus(refundAmount),
                             !.refundId = Len(stripe.refunds) + 1]]
              /\ transactions' = Append(transactions,
                   RefundTransaction(bookingId, refundAmount))
              /\ last' = Outcome("refund", "ok")
         ELSE /\ UNCHANGED <<stripe, bookings, transactions>>
              /\ last' = Outcome("refund",
                   IF r = "ok" THEN "ExternalProcessorError" ELSE r)
      /\ UNCHANGED <<listings, inflight>>

\* StripeService.processRefund: asks the processor to refund payment intent
\* pi and touches no document.
ProcessRefund(pi, amount, accepted) ==
  /\ pi \in 1..Len(stripe.intents)
  /\ accepted => Len(stripe.refunds) < MaxRefunds
  /\ stripe' = IF accepted
               THEN [stripe EXCEPT !.refunds = Append(@,
                      [paymentIntent |-> pi, amount |-> RefundAmount(amount)])]
               ELSE stripe
  /\ last' = Outcome("processRefund",
       IF accepted THEN "ok" ELSE "ExternalProcessorError")
  /\ UNCHANGED <<listings, bookings, transactions, inflight>>

\* ---------------------------------------------------------------- metrics
\* The sum of f[i] over the indices i in S.
RECURSIVE SumOver(_, _)
SumOver(f, S) ==
  IF S = {} THEN 0
  ELSE LET i == CHOOSE x \in S : TRUE
       IN  f[i] + SumOver(f, S \ {i})

\* totalRevenue of getDashboardMetrics: data.amount of every transaction of
\* the vendor is added, whatever its status.
DashboardRevenue(vendorId) ==
  SumOver([i \in 1..Len(transactions) |-> transactions[i].amount],
          {i \in 1..Len(transactions) : transactions[i].vendorId = vendorId})

\* totalRevenue of BookingService.getBookingMetrics: totalAmount of every
\* booking of the vendor whose paymentStatus is paid.
BookingMetricsRevenue(vendorId) ==
  SumOver([i \in 1..Len(bookings) |-> bookings[i].totalAmount],
          {i \in 1..Len(bookings) :
             /\ bookings[i].vendorId = vendorId
             /\ bookings[i].paymentStatus = "paid"})

Next ==
  \/ \E l \in ListingIds, s \in StartTimes, e \in EndTimes, u \in Customers :
       \/ \E st \in {"", "confirmed"} : SvcCreateBooking(l, s, e, u, st)
       \/ CtlCreateBooking(l, s, e, u)
       \/ RouteCreateBooking(l, s, e, u)
  \/ \E id \in BookingIds, body \in UpdateBodies :
       \/ SvcUpdateBooking(id, body)
       \/ \E u \in Requesters : CtlUpdateBooking(id, body, u)
       \/ \E u \in Requesters : RouteUpdateBooking(id, body, u)
  \/ \E id \in BookingIds, u \in Requesters, t \in Clock :
       \/ \E reason \in Reasons : SvcCancelBooking(id, u, reason, t)
       \/ CtlCancelBooking(id, u, t)

Spec == Init /\ [][Next]_vars

\* Concurrent BookingService.createBooking calls, interleaved at their awaits.
NextRace ==
  \/ \E p \in Slots, l \in ListingIds, s \in StartTimes, e \in EndTimes,
        u \in Customers : SvcCreateLoad(p, l, s, e, u, "")
  \/ \E p \in Slots : SvcCreateQuery(p)
  \/ \E p \in Slots : SvcCreateWrite(p)

SpecRace == Init /\ [][NextRace]_vars

\* Payments of bookings made through the bookings route.
NextPay ==
  \/ \E l \in ListingIds, u \in Customers :
       Len(bookings) < MaxPayBookings /\ RouteCreateBooking(l, 1, 2, u)
  \/ \E id \in BookingIds, amount \in PayAmounts, u \in Requesters,
        accepted \in BOOLEAN : CreatePaymentIntent(id, amount, u, accepted)
  \/ \E type \in WebhookTypes, pi \in 1..MaxIntents, valid \in BOOLEAN :
       HandleWebhook(type, pi, valid)
  \/ \E pi \in 1..MaxIntents : ProcessSuccessfulPayment(pi)
  \/ \E pi \in 1..MaxIntents : ProcessFailedPayment(pi)
  \/ \E id \in BookingIds, amount \in RefundAmounts, u \in Requesters,
        accepted \in BOOLEAN : RefundPayment(id, amount, u, accepted)
  \/ \E pi \in 1..MaxIntents, amount \in RefundAmounts, accepted \in BOOLEAN :
       ProcessRefund(pi, amount, accepted)

SpecPay == Init /\ [][NextPay]_vars

\* Listing updates and deletions among booking operations; a deletion may be
\* overtaken between its bookings query and its delete.
NextListing ==
  \/ \E l \in ListingIds, u \in Customers :
       /\ Len(bookings) < MaxListingBookings
       /\ \/ SvcCreateBooking(l, 1, 2, u, "")
          \/ CtlCreateBooking(l, 1, 2, u)
          \/ RouteCreateBooking(l, 1, 2, u)
  \/ \E id \in BookingIds, st \in Statuses :
       SvcUpdateBooking(id, [status |-> st, startTime |-> 0, endTime |-> 0,
                             paymentStatus |-> ""])
  \/ \E id \in BookingIds, st \in Statuses, u \in Requesters :
       CtlUpdateBooking(id, [status |-> st, startTime |-> 0, endTime |-> 0,
                             paymentStatus |-> ""], u)
  \/ \E id \in BookingIds, u \in Requesters, t \in Clock, reason \in Reasons :
       SvcCancelBooking(id, u, reason, t)
  \/ \E id \in BookingIds, u \in Requesters, t \in Clock :
       CtlCancelBooking(id, u, t)
  \/ \E l \in ListingIds, body \in ListingBodies, u \in Requesters :
       UpdateListing(l, body, u)
  \/ \E p \in Slots, l \in ListingIds, u \in Requesters :
       DeleteListingQuery(p, l, u)
  \/ \E p \in Slots : DeleteListingDelete(p)

SpecListing == Init /\ [][NextListing]_vars

\* Booking updates and cancels of a booking whose payment is under way.
NextFrame ==
  \/ \E l \in ListingIds, u \in Customers :
       Len(bookings) < MaxPayBookings /\ RouteCreateBooking(l, 1, 2, u)
  \/ \E id \in BookingIds, u \in Customers :
       CreatePaymentIntent(id, 10000, u, TRUE)
  \/ \E pi \in 1..MaxIntents : ProcessSuccessfulPayment(pi)
  \/ \E id \in BookingIds, body \in UpdateBodies \cup PaymentUpdateBodies :
       SvcUpdateBooking(id, body)
  \/ \E id \in BookingIds, body \in UpdateBodies \cup PaymentUpdateBodies,
        u \in Requesters : CtlUpdateBooking(id, body, u)
  \/ \E id \in BookingIds, u \in Requesters, t \in Clock, reason \in Reasons :
       SvcCancelBooking(id, u, reason, t)
  \/ \E id \in BookingIds, u \in Requesters, t \in Clock :
       CtlCancelBooking(id, u, t)

SpecFrame == Init /\ [][NextFrame]_vars

\* Webhook deliveries for the payment intents the processor holds, among
\* them intents whose metadata name no stored booking.
NextWebhook ==
  \/ \E l \in ListingIds, u \in Customers :
       Len(bookings) < MaxPayBookings /\ RouteCreateBooking(l, 1, 2, u)
  \/ \E id \in BookingIds, u \in Requesters, accepted \in BOOLEAN :
       CreatePaymentIntent(id, 10000, u, accepted)
  \/ \E id \in BookingIds, amount \in PayAmounts, v \in {"v1", "v2"},
        accepted \in BOOLEAN : SvcCreatePaymentIntent(id, amount, v, accepted)
  \/ \E type \in WebhookTypes, pi \in 1..MaxIntents, valid \in BOOLEAN :
       HandleWebhook(type, pi, valid)

SpecWebhook == Init /\ [][NextWebhook]_vars

\* Creates and cancels alone, over intervals long enough to hold another.
NextCreate ==
  \/ \E l \in ListingIds, s \in CreateTimes, e \in CreateTimes, u \in Customers :
       \/ \E st \in {"", "confirmed"} : SvcCreateBooking(l, s, e, u, st)
       \/ CtlCreateBooking(l, s, e, u)
       \/ RouteCreateBooking(l, s, e, u)
  \/ \E id \in BookingIds, u \in Requesters, t \in Clock, reason \in Reasons :
       SvcCancelBooking(id, u, reason, t)

SpecCreate == Init /\ [][NextCreate]_vars

\* Payment operations on a booking created pending or confirmed.
NextPayFrame ==
  \/ \E l \in ListingIds, u \in Customers, st \in {"", "confirmed"} :
       Len(bookings) < MaxPayBookings /\ SvcCreateBooking(l, 1, 2, u, st)
  \/ \E id \in BookingIds, u \in Requesters, accepted \in BOOLEAN :
       CreatePaymentIntent(id, 10000, u, accepted)
  \/ \E type \in WebhookTypes, pi \in 1..MaxIntents, valid \in BOOLEAN :
       Len(transactions) < MaxFrameTransactions /\ HandleWebhook(type, pi, valid)
  \/ \E pi \in 1..MaxIntents :
       Len(transactions) < MaxFrameTransactions /\ ProcessSuccessfulPayment(pi)
  \/ \E pi \in 1..MaxIntents : ProcessFailedPayment(pi)
  \/ \E id \in BookingIds, amount \in RefundAmounts, u \in Requesters,
        accepted \in BOOLEAN :
       Len(transactions) < MaxFrameTransactions
       /\ RefundPayment(id, amount, u, accepted)
  \/ \E pi \in 1..MaxIntents, accepted \in BOOLEAN : ProcessRefund(pi, 0, accepted)

SpecPayFrame == Init /\ [][NextPayFrame]_vars

\* refundPayment up to its first await: bookingRef.get() answers and the
\* request is checked against the booking read.
RefundLoad(p, bookingId, amount, requesterId) ==
  LET r == RefundCheck(bookingId, requesterId)
  IN  /\ inflight[p].pc = "idle"
      /\ IF r = "ok"
         THEN /\ inflight' = [inflight EXCEPT ![p] =
                     [pc |-> "refunding", bookingId |-> bookingId,
                      stripePaymentId |-> bookings[bookingId].stripePaymentId,
                      refundAmount |-> RefundAmount(amount), refundId |-> 0]]
              /\ last' = last
         ELSE /\ inflight' = inflight
              /\ last' = Outcome("refund", r)
      /\ UNCHANGED <<listings, bookings, transactions, stripe>>

\* refundPayment's second await: stripe.refunds.create answers or throws.
RefundCall(p, accepted) ==
  /\ inflight[p].pc = "refunding"
  /\ accepted => Len(stripe.refunds) < MaxRefunds
  /\ IF accepted
     THEN /\ stripe' = [stripe EXCEPT !.refunds = Append(@,
                 [paymentIntent |-> inflight[p].stripePaymentId,
                  amount |-> inflight[p].refundAmount])]
          /\ inflight' = [inflight EXCEPT ![p] =
                 [@ EXCEPT !.pc = "updating", !.refundId = Len(stripe.refunds) + 1]]
          /\ last' = last
     ELSE /\ stripe' = stripe
          /\ inflight' = [inflight EXCEPT ![p] = Idle]
          /\ last' = Outcome("refund", "ExternalProcessorError")
  /\ UNCHANGED <<listings, bookings, transactions>>

\* refundPayment's third await: bookingRef.update().
RefundUpdate(p) ==
  /\ inflight[p].pc = "updating"
  /\ bookings' = [bookings EXCEPT ![inflight[p].bookingId] =
       [@ EXCEPT !.paymentStatus = RefundedStatus(inflight[p].refundAmount),
                 !.refundId = inflight[p].refundId]]
  /\ inflight' = [inflight EXCEPT ![p].pc = "recording"]
  /\ UNCHANGED <<listings, transactions, stripe, last>>

\* refundPayment's last step: the refund Transaction is added.
RefundRecord(p) ==
  /\ inflight[p].pc = "recording"
  /\ Len(transactions) < MaxTransactions
  /\ transactions' = Append(transactions,
       RefundTransaction(inflight[p].bookingId, inflight[p].refundAmount))
  /\ inflight' = [inflight EXCEPT ![p] = Idle]
  /\ last' = Outcome("refund", "ok")
  /\ UNCHANGED <<listings, bookings, stripe>>

\* Concurrent refundPayment requests, interleaved at their awaits, for a
\* booking whose payment event is delivered once.
NextRefundRace ==
  \/ \E l \in ListingIds, u \in Customers :
       Len(bookings) < MaxPayBookings /\ RouteCreateBooking(l, 1, 2, u)
  \/ \E id \in BookingIds, u \in Customers :
       CreatePaymentIntent(id, 10000, u, TRUE)
  \/ \E pi \in 1..MaxIntents :
       transactions = <<>> /\ HandleWebhook("payment_intent.succeeded", pi, TRUE)
  \/ \E p \in Slots, id \in BookingIds, amount \in RefundAmounts,
        u \in Requesters : RefundLoad(p, id, amount, u)
  \/ \E p \in Slots, accepted \in BOOLEAN : RefundCall(p, accepted)
  \/ \E p \in Slots : RefundUpdate(p)
  \/ \E p \in Slots : RefundRecord(p)

SpecRefundRace == Init /\ [][NextRefundRace]_vars

\* handleSuccessfulPayment up to its second await: the booking is read and,
\* when it exists, bookingRef.update() is awaited; written is whether that
\* write succeeds or throws.  Every error is caught and logged, and the
\* event is acknowledged.
SucceededPaymentUpdate(p, pi, written) ==
  LET id == stripe.intents[pi].bookingId
  IN  /\ pi \in 1..Len(stripe.intents)
      /\ inflight[p].pc = "idle"
      /\ IF BookingExists(id) /\ written
         THEN /\ bookings' = [bookings EXCEPT ![id] =
                   [@ EXCEPT !.paymentStatus = "paid", !.stripePaymentId = pi]]
              /\ inflight' = [inflight EXCEPT ![p] =
                   [pc |-> "inserting", paymentIntent |-> pi]]
              /\ last' = last
         ELSE /\ UNCHANGED <<bookings, inflight>>
              /\ last' = Outcome("payment_succeeded", "ok")
      /\ UNCHANGED <<listings, transactions, stripe>>

\* handleSuccessfulPayment's last await: transactions.add(); written is
\* whether that write succeeds or throws.
SucceededPaymentInsert(p, written) ==
  /\ inflight[p].pc = "inserting"
  /\ written => Len(transactions) < MaxTransactions
  /\ transactions' = IF written
                     THEN Append(transactions,
                                 CompletedTransaction(inflight[p].paymentIntent))
                     ELSE transactions
  /\ inflight' = [inflight EXCEPT ![p] = Idle]
  /\ last' = Outcome("payment_succeeded", "ok")
  /\ UNCHANGED <<listings, bookings, stripe>>

\* Deliveries of payment_intent.succeeded whose handler runs write by write,
\* each write succeeding or failing.
NextWebhookWrites ==
  \/ \E l \in ListingIds, u \in Customers :
       Len(bookings) < MaxPayBookings /\ RouteCreateBooking(l, 1, 2, u)
  \/ \E id \in BookingIds, u \in Customers :
       CreatePaymentIntent(id, 10000, u, TRUE)
  \/ \E p \in Slots, pi \in 1..MaxIntents, written \in BOOLEAN :
       SucceededPaymentUpdate(p, pi, written)
  \/ \E p \in Slots, written \in BOOLEAN : SucceededPaymentInsert(p, written)

SpecWebhookWrites == Init /\ [][NextWebhookWrites]_vars

\* ------------------------------------------- JavaScript number arithmetic
\* The Transaction amounts of handleSuccessfulPayment are JavaScript numbers:
\* IEEE-754 binary64 values, each operation rounded to nearest, ties to even.
\* A natural number is the sequence of its digits in radix 2^RadixBits,
\* lowest first, with no leading zero digit; a positive binary64 value is
\* [m, e], standing for m * 2^e with a significand m of Float64Precision
\* binary digits.  The amounts are far from the subnormal and the overflow
\* range.
Float64Precision == 53

RadixBits == 14

Radix == 2^RadixBits

\* Extra binary quotient digits a division computes before it rounds.
DivScale == 64

RECURSIVE NatDigits(_)
NatDigits(n) == IF n = 0 THEN <<>> ELSE <<n % Radix>> \o NatDigits(n \div Radix)

TrimDigits(x) ==
  IF \A j \in 1..Len(x) : x[j] = 0 THEN <<>>
  ELSE SubSeq(x, 1, CHOOSE j \in 1..Len(x) :
                      x[j] /= 0 /\ \A k \in (j + 1)..Len(x) : x[k] = 0)

DigitAt(x, j) == IF j \in 1..Len(x) THEN x[j] ELSE 0

\* Binary digit i of x, the lowest being digit 1.
BitAt(x, i) ==
  (DigitAt(x, (i - 1) \div RadixBits + 1) \div 2^((i - 1) % RadixBits)) % 2

BitLength(x) ==
  IF x = <<>> THEN 0
  ELSE (Len(x) - 1) * RadixBits
       + (CHOOSE k \in 1..RadixBits : 2^(k - 1) <= x[Len(x)] /\ x[Len(x)] < 2^k)

\* The digit made of the k binary digits of the sequence b after position i.
RECURSIVE BitsValue(_, _, _)
BitsValue(b, i, k) ==
  IF k = 0 THEN 0
  ELSE (IF i + 1 <= Len(b) THEN b[i + 1] ELSE 0) + 2 * BitsValue(b, i + 1, k - 1)

FromBits(b) ==
  TrimDigits([j \in 1..((Len(b) + RadixBits - 1) \div RadixBits) |->
                BitsValue(b, RadixBits * (j - 1), RadixBits)])

\* x * 2^k
ShiftLeft(x, k) ==
  FromBits([i \in 1..(BitLength(x) + k) |-> IF i <= k THEN 0 ELSE BitAt(x, i - k)])

\* x \div 2^k
ShiftRight(x, k) ==
  FromBits([i \in 1..(BitLength(x) - k) |-> BitAt(x, i + k)])

RECURSIVE AddDigits(_, _, _, _)
AddDigits(x, y, j, carry) ==
  IF j > Len(x) /\ j > Len(y) THEN (IF carry = 0 THEN <<>> ELSE <<carry>>)
  ELSE LET t == DigitAt(x, j) + DigitAt(y, j) + carry
       IN  <<t % Radix>> \o AddDigits(x, y, j + 1, t \div Radix)

\* x - y for x >= y, before leading zeros are removed.
RECURSIVE SubDigits(_, _, _, _)
SubDigits(x, y, j, borrow) ==
  IF j > Len(x) THEN <<>>
  ELSE LET t == x[j] - DigitAt(y, j) - borrow
       IN  <<(t + Radix) % Radix>> \o SubDigits(x, y, j + 1, IF t < 0 THEN 1 ELSE 0)

RECURSIVE ColumnSum(_, _, _, _)
ColumnSum(x, y, k, i) ==
  IF i > Len(x) THEN 0
  ELSE x[i] * DigitAt(y, k + 1 - i) + ColumnSum(x, y, k, i + 1)

\* x * y for x and y of at most four digits, before leading zeros are removed.
RECURSIVE MulDigits(_, _, _, _)
MulDigits(x, y, k, carry) ==
  IF k > Len(x) + Len(y) THEN <<>>
  ELSE LET t == ColumnSum(x, y, k, 1) + carry
       IN  <<t % Radix>> \o MulDigits(x, y, k + 1, t \div Radix)

\* Quotient digits and remainder of the digits of x from position j on by a
\* divisor d below Radix.
RECURSIVE DivRem(_, _, _)
DivRem(x, d, j) ==
  IF j > Len(x) THEN [q |-> <<>>, r |-> 0]
  ELSE LET hi == DivRem(x, d, j + 1)
           t == hi.r * Radix + x[j]
       IN  [q |-> <<t \div d>> \o hi.q, r |-> t % d]

\* The binary64 value nearest to x * 2^e, ties to even.
Float64(x, e) ==
  LET n == BitLength(x)
      d == n - Float64Precision
  IN  IF x = <<>> THEN [m |-> <<>>, e |-> 0]
      ELSE IF d <= 0 THEN [m |-> ShiftLeft(x, 0 - d), e |-> e + d]
      ELSE LET q == ShiftRight(x, d)
               up == /\ BitAt(x, d) = 1
                     /\ \/ \E i \in 1..(d - 1) : BitAt(x, i) = 1
                        \/ BitAt(q, 1) = 1
               r == IF up THEN AddDigits(q, <<1>>, 1, 0) ELSE q
           IN  IF BitLength(r) > Float64Precision
               THEN [m |-> ShiftRight(r, 1), e |-> e + d + 1]
               ELSE [m |-> r, e |-> e + d]

\* A whole number as a JavaScript number.
Float64FromInt(n) == Float64(NatDigits(n), 0)

\* n / d for whole numbers n and d < Radix that a binary64 value holds
\* exactly: the quotient with a last digit that tells whether it is inexact.
Float64Div(n, d) ==
  LET dr == DivRem(ShiftLeft(NatDigits(n), DivScale), d, 1)
      q == ShiftLeft(TrimDigits(dr.q), 1)
  IN  Float64(IF dr.r = 0 THEN q ELSE AddDigits(q, <<1>>, 1, 0), 0 - DivScale - 1)

\* a * b
Float64Mul(a, b) == Float64(TrimDigits(MulDigits(a.m, b.m, 1, 0)), a.e + b.e)

\* The significands of a and b over their smaller exponent.
Aligned(a, b) ==
  LET e == IF a.e < b.e THEN a.e ELSE b.e
  IN  [x |-> ShiftLeft(a.m, a.e - e), y |-> ShiftLeft(b.m, b.e - e), e |-> e]

\* a + b for a, b > 0
Float64Add(a, b) ==
  LET al == Aligned(a, b) IN Float64(AddDigits(al.x, al.y, 1, 0), al.e)

\* a - b for a >= b > 0
Float64Sub(a, b) ==
  LET al == Aligned(a, b) IN Float64(TrimDigits(SubDigits(al.x, al.y, 1, 0)), al.e)

\* The literal 0.05: the binary64 value nearest to 5/100.
Float64FivePercent == Float64Div(5, 100)

\* Payment amounts of whole cents, in the unit of the money fields, that the
\* fee computation is swept over; the last one is 100.00.
FeeCents == 1..MaxFeeCents \cup {10000}

FeeAmounts == {c * 100 : c \in FeeCents}

\* The Transaction handleSuccessfulPayment adds for payment intent pi, its
\* amounts being the JavaScript numbers the handler computes:
\* amount = pi.amount / 100, fee = amount * 0.05, net = amount - fee.
CompletedTransactionFloat64(pi) ==
  LET intent == stripe.intents[pi]
      amount == Float64Div(intent.amount, 100)
      fee == Float64Mul(amount, Float64FivePercent)
  IN  [bookingId |-> intent.bookingId,
       vendorId |-> intent.vendorId,
       amount |-> amount,
       fee |-> fee,
       net |-> Float64Sub(amount, fee),
       stripePaymentId |-> pi,
       status |-> "completed"]

\* handleSuccessfulPayment of paymentController.js for payment intent pi,
\* the Transaction holding JavaScript numbers.
HandleSuccessfulPaymentFloat64(pi) ==
  /\ pi \in 1..Len(stripe.intents)
  /\ Len(transactions) < MaxFeeTransactions
  /\ LET id == stripe.intents[pi].bookingId
     IN  IF ~BookingExists(id)
         THEN UNCHANGED <<bookings, transactions>>
         ELSE /\ bookings' = [bookings EXCEPT ![id] =
                   [@ EXCEPT !.paymentStatus = "paid", !.stripePaymentId = pi]]
              /\ transactions' = Append(transactions,
                                        CompletedTransactionFloat64(pi))
  /\ last' = Outcome("payment_succeeded", "ok")
  /\ UNCHANGED <<listings, stripe, inflight>>

\* One payment of every amount of FeeAmounts, its Transaction computed in
\* JavaScript numbers.
NextFee ==
  \/ \E l \in ListingIds, u \in Customers :
       Len(bookings) < MaxPayBookings /\ RouteCreateBooking(l, 1, 2, u)
  \/ \E id \in BookingIds, amount \in FeeAmounts, u \in Customers :
       /\ Len(stripe.intents) < MaxFeeIntents
       /\ CreatePaymentIntent(id, amount, u, TRUE)
  \/ \E pi \in 1..MaxIntents : HandleSuccessfulPaymentFloat64(pi)

SpecFee == Init /\ [][NextFee]_vars

\* ------------------------------------------------------------------ claims
\* The stored intervals of bookings i and j overlap as half-open intervals.
HalfOpenOverlap(i, j) ==
  /\ bookings[i].startTime < bookings[j].endTime
  /\ bookings[j].startTime < bookings[i].endTime

\* The interval [startTime, endTime) overlaps the stored interval of booking i.
OverlapsStored(startTime, endTime, i) ==
  startTime < bookings[i].endTime /\ bookings[i].startTime < endTime

IsActive(i) == bookings[i].status \in {"pending", "confirmed"}

\* A create request for (listingId, [startTime, endTime)) by userId is served
\* by one of the three implementations.
CreateStep(listingId, startTime, endTime, userId) ==
  \/ \E st \in {"", "confirmed"} :
       SvcCreateBooking(listingId, startTime, endTime, userId, st)
  \/ CtlCreateBooking(listingId, startTime, endTime, userId)
  \/ RouteCreateBooking(listingId, startTime, endTime, userId)

\* A cancel request for booking id by requesterId, the clock reading t, is
\* served by one of the two implementations.
CancelStep(id, requesterId, t) ==
  \/ \E reason \in Reasons : SvcCancelBooking(id, requesterId, reason, t)
  \/ CtlCancelBooking(id, requesterId, t)

\* C1: in every state reached by create, update and cancel operations, no two
\* distinct pending or confirmed bookings of one listing have overlapping
\* half-open intervals.
C1_NoOverlap ==
  \A i, j \in 1..Len(bookings) :
    (/\ i /= j
     /\ bookings[i].listingId = bookings[j].listingId
     /\ IsActive(i) /\ IsActive(j)) => ~HalfOpenOverlap(i, j)

\* C2: of two BookingService.createBooking calls for overlapping intervals
\* of one listing whose steps interleave, at most one succeeds: no listing
\* ends up with two active bookings created for overlapping intervals.
C2_RaceAtMostOneSucceeds ==
  \A i \in 1..Len(bookings) :
    IsActive(i) =>
      Cardinality({j \in 1..Len(bookings) :
                     /\ IsActive(j)
                     /\ bookings[j].listingId = bookings[i].listingId
                     /\ HalfOpenOverlap(i, j)}) <= 1

\* C5: once the status of a booking is cancelled or completed, no operation
\* changes it to another value.
C5_TerminalStatusKept ==
  [][\A i \in 1..Len(bookings) :
       bookings[i].status \in {"cancelled", "completed"}
         => bookings'[i].status = bookings[i].status]_vars

\* C8: a create for [s, e) on an active listing succeeds and stores the
\* booking when a cancelled booking of that listing holds the same interval
\* and no pending or confirmed booking of the listing overlaps it: a
\* cancelled booking is never in the conflict set.
C8_RebookAfterCancel ==
  [][\A l \in ListingIds, s \in StartTimes, e \in EndTimes, u \in Customers :
       (/\ last'.op = "create"
        /\ s < e
        /\ ListingExists(l) /\ listings[l].status = "active"
        /\ \E i \in 1..Len(bookings) :
             /\ bookings[i].status = "cancelled"
             /\ bookings[i].listingId = l
             /\ bookings[i].startTime = s /\ bookings[i].endTime = e
        /\ \A i \in 1..Len(bookings) :
             (bookings[i].listingId = l /\ IsActive(i))
               => /\ bookings[i].startTime < bookings[i].endTime
                  /\ ~OverlapsStored(s, e, i)
        /\ CreateStep(l, s, e, u))
       => /\ last'.result = "ok"
          /\ Len(bookings') = Len(bookings) + 1
          /\ bookings'[Len(bookings')].listingId = l
          /\ bookings'[Len(bookings')].startTime = s
          /\ bookings'[Len(bookings')].endTime = e
          /\ bookings'[Len(bookings')].status \in {"pending", "confirmed"}]_vars

\* C8 witness: a create succeeded for the listing and interval of an earlier
\* booking that BookingService.cancelBooking had cancelled.
C8_Witness ==
  /\ last = Outcome("create", "ok")
  /\ \E i \in 1..(Len(bookings) - 1) :
       /\ bookings[i].status = "cancelled" /\ bookings[i].cancelledBy /= ""
       /\ bookings[i].listingId = bookings[Len(bookings)].listingId
       /\ bookings[i].startTime = bookings[Len(bookings)].startTime
       /\ bookings[i].endTime = bookings[Len(bookings)].endTime
       /\ bookings[i].startTime < bookings[i].endTime
       /\ IsActive(Len(bookings))

\* C9: a cancel of a booking that starts before the current time fails with
\* PastBookingError and leaves the booking unchanged; a cancel of a booking
\* that starts later and is not yet cancelled succeeds and sets the status
\* to cancelled, when the requester is the vendor or the customer.
C9_CancelPastAndFuture ==
  [][\A id \in BookingIds, u \in Requesters, t \in Clock :
       (/\ last'.op = "cancel"
        /\ BookingExists(id)
        /\ u \in {bookings[id].vendorId, bookings[id].userId}
        /\ bookings[id].status /= "cancelled"
        /\ CancelStep(id, u, t))
       => IF bookings[id].startTime < t
          THEN last'.result = "PastBookingError" /\ bookings' = bookings
          ELSE last'.result = "ok" /\ bookings'[id].status = "cancelled"]_vars

\* C10: a cancel is accepted when the requester is the vendor or the customer
\* of the booking; for every other requester it fails with
\* AuthorizationError and leaves the booking unchanged.
C10_CancelAuthorization ==
  [][\A id \in BookingIds, u \in Requesters, t \in Clock :
       (/\ last'.op = "cancel"
        /\ BookingExists(id)
        /\ CancelStep(id, u, t))
       => IF u \in {bookings[id].vendorId, bookings[id].userId}
          THEN last'.result /= "AuthorizationError"
          ELSE last'.result = "AuthorizationError" /\ bookings' = bookings]_vars

\* A payment_failed event for payment intent pi is applied by one of the two
\* implementations.
FailedPaymentStep(pi) ==
  \/ HandleWebhook("payment_intent.payment_failed", pi, TRUE)
  \/ ProcessFailedPayment(pi)

\* A refund request for booking id reaches refundPayment.
RefundStep(id, amount, requesterId) ==
  \E accepted \in BOOLEAN : RefundPayment(id, amount, requesterId, accepted)

\* C3: for a payment intent p whose payment_succeeded event has been applied
\* to a booking, once or more often, the transactions collection holds
\* exactly one completed record whose external payment id is p.
C3_ExactlyOneTransaction ==
  \A p \in 1..Len(stripe.intents) :
    (\E i \in 1..Len(bookings) : bookings[i].stripePaymentId = p)
      => Cardinality({t \in 1..Len(transactions) :
                        /\ transactions[t].stripePaymentId = p
                        /\ transactions[t].status = "completed"}) = 1

\* C4: a payment_failed event applied for a booking whose paymentStatus is
\* paid leaves the paymentStatus paid.
C4_FailedAfterPaidIgnored ==
  [][\A pi \in 1..MaxIntents :
       (/\ last'.op = "payment_failed"
        /\ pi \in 1..Len(stripe.intents)
        /\ BookingExists(stripe.intents[pi].bookingId)
        /\ bookings[stripe.intents[pi].bookingId].paymentStatus = "paid"
        /\ FailedPaymentStep(pi))
       => bookings'[stripe.intents[pi].bookingId].paymentStatus = "paid"]_vars

\* C6: a refund of a paid booking that succeeds stores the id of the refund
\* the processor created on the booking, and sets paymentStatus to refunded
\* when the request carries no amount and to partially_refunded when it
\* carries an amount below the booking's total.
C6_RefundStatusAndId ==
  [][\A id \in BookingIds, amount \in RefundAmounts, u \in Requesters :
       (/\ last'.op = "refund" /\ last'.result = "ok"
        /\ BookingExists(id)
        /\ bookings[id].paymentStatus = "paid"
        /\ RefundStep(id, amount, u))
       => /\ Len(stripe'.refunds) = Len(stripe.refunds) + 1
          /\ bookings'[id].refundId = Len(stripe'.refunds)
          /\ stripe'.refunds[bookings'[id].refundId].paymentIntent
               = bookings[id].stripePaymentId
          /\ amount = 0 => bookings'[id].paymentStatus = "refunded"
          /\ (0 < amount /\ amount < bookings[id].totalAmount)
               => bookings'[id].paymentStatus = "partially_refunded"]_vars

\* C6 witness: a booking was refunded in part, paid again and then refunded
\* without an amount; it is now refunded and holds the id of the second
\* refund.
C6_Witness ==
  /\ last = Outcome("refund", "ok")
  /\ \E i \in 1..Len(bookings) :
       /\ bookings[i].paymentStatus = "refunded"
       /\ bookings[i].refundId \in 2..Len(stripe.refunds)
       /\ stripe.refunds[bookings[i].refundId].amount = 0
       /\ \E r \in 1..(bookings[i].refundId - 1) :
            /\ stripe.refunds[r].amount > 0
            /\ stripe.refunds[r].amount * 100 < bookings[i].totalAmount
            /\ \E t \in 1..Len(transactions) :
                 /\ transactions[t].status = "refunded"
                 /\ transactions[t].bookingId = i
                 /\ transactions[t].amount = stripe.refunds[r].amount * 100

\* C7: a refund requested by the vendor fails with NoPaymentError when the
\* booking holds no external payment id and with NotPaidError when it holds
\* one and its paymentStatus is not paid; whoever asks, in both cases the
\* request ends before the processor is called (it neither succeeds nor
\* fails with the processor's error) and the bookings, the transactions and
\* the processor's refunds are unchanged.
C7_RefundRejected ==
  [][\A id \in BookingIds, amount \in RefundAmounts, u \in Requesters :
       (/\ last'.op = "refund"
        /\ BookingExists(id)
        /\ (bookings[id].stripePaymentId = 0 \/ bookings[id].paymentStatus /= "paid")
        /\ RefundStep(id, amount, u))
       => /\ last'.result \notin {"ok", "ExternalProcessorError"}
          /\ UNCHANGED <<bookings, transactions, stripe>>
          /\ u = bookings[id].vendorId =>
               last'.result = IF bookings[id].stripePaymentId = 0
                              THEN "NoPaymentError" ELSE "NotPaidError"]_vars

\* C7 witness: the vendor's refund request for a booking that holds a payment
\* id and is no longer paid was answered with NotPaidError.
C7_Witness ==
  /\ last = Outcome("refund", "NotPaidError")
  /\ \E i \in 1..Len(bookings) :
       /\ bookings[i].stripePaymentId /= 0
       /\ bookings[i].paymentStatus \in {"refunded", "partially_refunded", "failed"}

\* C11: a cancel that succeeds sets the status to cancelled and records the
\* requester as cancelledBy; a cancel of a booking that is already cancelled,
\* asked by its vendor or its customer, fails with AlreadyCancelledError and
\* leaves the booking as it was.
C11_CancelRecordsRequester ==
  [][\A id \in BookingIds, u \in Requesters, t \in Clock :
       (/\ last'.op = "cancel"
        /\ BookingExists(id)
        /\ CancelStep(id, u, t))
       => /\ last'.result = "ok"
               => /\ bookings'[id].status = "cancelled"
                  /\ bookings'[id].cancelledBy = u
          /\ (/\ bookings[id].status = "cancelled"
              /\ u \in {bookings[id].vendorId, bookings[id].userId})
               => /\ last'.result = "AlreadyCancelledError"
                  /\ bookings' = bookings]_vars

\* C12: in every state reached by listing deletions interleaved with booking
\* creates, updates and cancels, every booking whose status is not cancelled
\* refers to a listing that still exists.
C12_NoLiveBookingOfDeletedListing ==
  \A i \in 1..Len(bookings) :
    bookings[i].status /= "cancelled" => listings[bookings[i].listingId].exists

\* C13: a delete request of the owner for a listing that has a booking whose
\* status is not cancelled fails with HasActiveBookingsError and the listing
\* stays; when every booking of the listing is cancelled the request passes
\* its check, and its delete removes the listing and answers ok.
C13_DeleteListingGuard ==
  [][/\ \A p \in Slots, l \in ListingIds, u \in Requesters :
          (/\ inflight[p].pc = "idle"
           /\ last'.op = "deleteListing" \/ inflight'[p].pc = "deleting"
           /\ listings[l].exists /\ listings[l].vendorId = u
           /\ DeleteListingQuery(p, l, u))
          => IF \E i \in 1..Len(bookings) :
                  bookings[i].listingId = l /\ bookings[i].status /= "cancelled"
             THEN /\ last' = Outcome("deleteListing", "HasActiveBookingsError")
                  /\ listings' = listings
                  /\ inflight' = inflight
             ELSE inflight'[p] = [pc |-> "deleting", listingId |-> l]
     /\ \A p \in Slots :
          (inflight[p].pc = "deleting" /\ DeleteListingDelete(p))
          => /\ ~listings'[inflight[p].listingId].exists
             /\ last' = Outcome("deleteListing", "ok")]_vars

\* C13 witness: a listing was deleted whose only booking had been cancelled
\* by BookingService.cancelBooking.
C13_Witness ==
  /\ last = Outcome("deleteListing", "ok")
  /\ \E i \in 1..Len(bookings) :
       /\ ~listings[bookings[i].listingId].exists
       /\ bookings[i].status = "cancelled"
       /\ bookings[i].cancelledBy /= ""

\* C14: no booking create, update or cancel changes the paymentStatus, the
\* stripePaymentIntentId, the stripePaymentId or the refundId of a booking
\* that exists, whatever the request carries.
C14_BookingOpsKeepPaymentFields ==
  [][\A i \in 1..Len(bookings) :
       last'.op \in {"create", "update", "cancel"}
         => /\ bookings'[i].paymentStatus = bookings[i].paymentStatus
            /\ bookings'[i].stripePaymentIntentId = bookings[i].stripePaymentIntentId
            /\ bookings'[i].stripePaymentId = bookings[i].stripePaymentId
            /\ bookings'[i].refundId = bookings[i].refundId]_vars

\* An update request for booking id by requesterId is served by one of the
\* three implementations; BookingService.updateBooking is not told who asks.
UpdateStep(id, body, requesterId) ==
  \/ SvcUpdateBooking(id, body)
  \/ CtlUpdateBooking(id, body, requesterId)
  \/ RouteUpdateBooking(id, body, requesterId)

\* C15: a booking update, a refund, a listing update and a listing delete
\* asked by a requester who is not the vendor of the record fail with
\* AuthorizationError and leave every record unchanged.
C15_OnlyVendorMutates ==
  [][\A u \in Requesters :
       /\ \A id \in BookingIds, body \in UpdateBodies \cup PaymentUpdateBodies :
            (/\ last'.op = "update"
             /\ BookingExists(id) /\ bookings[id].vendorId /= u
             /\ UpdateStep(id, body, u))
            => /\ last'.result = "AuthorizationError"
               /\ UNCHANGED <<bookings, listings, transactions>>
       /\ \A id \in BookingIds, amount \in RefundAmounts :
            (/\ last'.op = "refund"
             /\ BookingExists(id) /\ bookings[id].vendorId /= u
             /\ RefundStep(id, amount, u))
            => /\ last'.result = "AuthorizationError"
               /\ UNCHANGED <<bookings, listings, transactions, stripe>>
       /\ \A l \in ListingIds, body \in ListingBodies :
            (/\ last'.op = "updateListing"
             /\ listings[l].exists /\ listings[l].vendorId /= u
             /\ UpdateListing(l, body, u))
            => /\ last'.result = "AuthorizationError"
               /\ UNCHANGED <<bookings, listings, transactions>>
       /\ \A l \in ListingIds, p \in Slots :
            (/\ listings[l].exists /\ listings[l].vendorId /= u
             /\ DeleteListingQuery(p, l, u))
            => /\ last' = Outcome("deleteListing", "AuthorizationError")
               /\ UNCHANGED <<bookings, listings, transactions, inflight>>]_vars

\* C16: a verified payment_intent.succeeded or payment_intent.payment_failed
\* event whose payment intent names a booking that does not exist is
\* acknowledged, adds no Transaction and changes no booking.
C16_MissingBookingAcknowledged ==
  [][\A type \in {"payment_intent.succeeded", "payment_intent.payment_failed"},
        pi \in 1..MaxIntents :
       (/\ last'.op \in {"payment_succeeded", "payment_failed"}
        /\ pi \in 1..Len(stripe.intents)
        /\ stripe.intents[pi].bookingId \notin 1..Len(bookings)
        /\ HandleWebhook(type, pi, TRUE))
       => /\ last'.result = "ok"
          /\ transactions' = transactions
          /\ bookings' = bookings]_vars

\* C16 witness: a payment_intent.succeeded event was acknowledged while every
\* payment intent the processor holds names a booking that does not exist.
C16_Witness ==
  /\ last = Outcome("payment_succeeded", "ok")
  /\ Len(stripe.intents) >= 1
  /\ \A pi \in 1..Len(stripe.intents) :
       stripe.intents[pi].bookingId \notin 1..Len(bookings)
  /\ transactions = <<>>

\* The sum of the amounts of the vendor's transactions of status completed.
CompletedRevenue(vendorId) ==
  SumOver([i \in 1..Len(transactions) |-> transactions[i].amount],
          {i \in 1..Len(transactions) :
             /\ transactions[i].vendorId = vendorId
             /\ transactions[i].status = "completed"})

\* C17: the revenue that each metrics operation reports for a vendor is the
\* sum of the amounts of that vendor's completed transactions; refunded
\* transactions add nothing to it.
C17_RevenueCountsCompletedOnly ==
  \A v \in {"v1", "v2"} :
    /\ DashboardRevenue(v) = CompletedRevenue(v)
    /\ BookingMetricsRevenue(v) = CompletedRevenue(v)

\* C18: for every listing and every interval [s, e) with s < e,
\* checkAvailability answers false exactly when some pending or confirmed
\* stored booking of the listing overlaps [s, e) as a half-open interval.
C18_AvailabilityIsHalfOpenOverlap ==
  \A l \in ListingIds, s \in StartTimes, e \in EndTimes :
    s < e =>
      ((checkAvailability(l, s, e) = "unavailable")
         <=> \E i \in 1..Len(bookings) :
               /\ bookings[i].listingId = l
               /\ IsActive(i)
               /\ OverlapsStored(s, e, i))

\* C19: when a listing has exactly one pending or confirmed booking, [s, e),
\* a create for an interval that starts at e succeeds and stores the booking,
\* and a create for an interval strictly inside [s, e) fails with
\* ConflictError and stores nothing.
C19_TouchingOkInsideConflict ==
  [][\A l \in ListingIds, s \in CreateTimes, e \in CreateTimes, u \in Customers :
       \A i \in 1..Len(bookings) :
         (/\ last'.op = "create"
          /\ s < e
          /\ listings[l].exists /\ listings[l].status = "active"
          /\ bookings[i].listingId = l /\ IsActive(i)
          /\ bookings[i].startTime < bookings[i].endTime
          /\ \A j \in 1..Len(bookings) :
               (bookings[j].listingId = l /\ IsActive(j)) => j = i
          /\ CreateStep(l, s, e, u))
         => /\ s = bookings[i].endTime
                 => /\ last'.result = "ok"
                    /\ Len(bookings') = Len(bookings) + 1
                    /\ bookings'[Len(bookings')].listingId = l
                    /\ bookings'[Len(bookings')].startTime = s
                    /\ bookings'[Len(bookings')].endTime = e
            /\ (bookings[i].startTime < s /\ e < bookings[i].endTime)
                 => /\ last'.result = "ConflictError"
                    /\ bookings' = bookings]_vars

\* C20: an update by the vendor that carries a startTime or an endTime and
\* gives the booking a valid interval succeeds when the interval is the
\* booking's own and no other pending or confirmed booking of the listing
\* overlaps it, and fails with ConflictError, leaving the bookings unchanged,
\* when another pending or confirmed booking of the listing overlaps it.
C20_UpdateChecksOtherBookings ==
  [][\A id \in BookingIds, body \in UpdateBodies :
       (/\ last'.op = "update"
        /\ BookingExists(id)
        /\ body.startTime /= 0 \/ body.endTime /= 0
        /\ UpdateStep(id, body, bookings[id].vendorId))
       => LET start == IF body.startTime /= 0 THEN body.startTime
                       ELSE bookings[id].startTime
              end == IF body.endTime /= 0 THEN body.endTime
                     ELSE bookings[id].endTime
              others == {j \in 1..Len(bookings) :
                           /\ j /= id
                           /\ bookings[j].listingId = bookings[id].listingId
                           /\ IsActive(j)
                           /\ bookings[j].startTime < bookings[j].endTime
                           /\ OverlapsStored(start, end, j)}
          IN  start < end
                => /\ (/\ others = {}
                       /\ start = bookings[id].startTime
                       /\ end = bookings[id].endTime) => last'.result = "ok"
                   /\ others /= {}
                        => /\ last'.result = "ConflictError"
                           /\ bookings' = bookings]_vars


\* C21: every booking produced by a successful create has status pending,
\* paymentStatus pending, the listing's vendorId and the listing's price at
\* that moment as totalAmount, whatever else the request carries; a later
\* listing update leaves the totalAmount of every stored booking unchanged.
C21_CreatedBookingFields ==
  [][/\ \A l \in ListingIds, s \in StartTimes, e \in EndTimes, u \in Customers :
          (/\ last'.op = "create" /\ last'.result = "ok"
           /\ CreateStep(l, s, e, u))
          => /\ Len(bookings') = Len(bookings) + 1
             /\ bookings'[Len(bookings')].status = "pending"
             /\ bookings'[Len(bookings')].paymentStatus = "pending"
             /\ bookings'[Len(bookings')].vendorId = listings[l].vendorId
             /\ bookings'[Len(bookings')].totalAmount = listings[l].price
     /\ last'.op = "updateListing"
          => /\ Len(bookings') = Len(bookings)
             /\ \A i \in 1..Len(bookings) :
                  bookings'[i].totalAmount = bookings[i].totalAmount]_vars

\* C22: a create request fails with NotFoundError when the listing does not
\* exist, with InactiveResourceError when the listing's status is not
\* active and with InvalidRangeError when endTime <= startTime; in each of
\* these cases no booking is persisted.
C22_CreateRejections ==
  [][\A l \in ListingIds, s \in StartTimes, e \in EndTimes, u \in Customers :
       LET errors ==
             (IF ~ListingExists(l) THEN {"NotFoundError"} ELSE {})
             \cup (IF ListingExists(l) /\ listings[l].status /= "active"
                   THEN {"InactiveResourceError"} ELSE {})
             \cup (IF e <= s THEN {"InvalidRangeError"} ELSE {})
       IN  (/\ last'.op = "create"
            /\ errors /= {}
            /\ CreateStep(l, s, e, u))
           => /\ last'.result \in errors
              /\ bookings' = bookings]_vars

\* C23: every Transaction written for a succeeded payment of amount a has
\* fee = 5% of a and net = a - fee with fee + net = a exactly, for every
\* amount of whole cents, those whose 5% is no whole number of cents
\* included; for a = 100.00 the fee is 5.00 and the net is 95.00.
C23_FeePlusNetIsAmount ==
  \A i \in 1..Len(transactions) :
    LET t == transactions[i]
    IN  t.status = "completed" =>
          /\ t.fee = Float64Mul(t.amount, Float64FivePercent)
          /\ t.net = Float64Sub(t.amount, t.fee)
          /\ Float64Add(t.fee, t.net) = t.amount
          /\ t.amount = Float64FromInt(100) =>
               t.fee = Float64FromInt(5) /\ t.net = Float64FromInt(95)

\* C24: the application fee createPaymentIntent sends to the processor for a
\* request of amount a is 5% of a in integer cents, that is 5% of
\* round(a * 100), up to rounding to a whole cent.
C24_ApplicationFeeIsFivePercentOfCents ==
  \A pi \in 1..Len(stripe.intents) :
    LET intent == stripe.intents[pi]
    IN  /\ intent.amount * 5 - 100 < intent.applicationFee * 100
        /\ intent.applicationFee * 100 < intent.amount * 5 + 100

\* C25: no payment operation (createPaymentIntent, a webhook delivery, a
\* refund) changes the status, startTime, endTime or listingId of a booking;
\* payment_failed for a pending or confirmed booking sets its paymentStatus
\* to failed and leaves its status as it was.
C25_PaymentOpsKeepBookingFields ==
  [][/\ last'.op \in {"createPaymentIntent", "payment_succeeded",
                      "payment_failed", "webhook", "refund", "processRefund"}
          => /\ Len(bookings') = Len(bookings)
             /\ \A i \in 1..Len(bookings) :
                  /\ bookings'[i].status = bookings[i].status
                  /\ bookings'[i].startTime = bookings[i].startTime
                  /\ bookings'[i].endTime = bookings[i].endTime
                  /\ bookings'[i].listingId = bookings[i].listingId
     /\ \A pi \in 1..Len(stripe.intents) :
          LET id == stripe.intents[pi].bookingId
          IN  (/\ last'.op = "payment_failed"
               /\ BookingExists(id) /\ IsActive(id)
               /\ FailedPaymentStep(pi))
              => /\ bookings'[id].paymentStatus = "failed"
                 /\ bookings'[id].status = bookings[id].status]_vars

\* A confirmed booking whose payment has just failed.
C25_Witness ==
  /\ last = Outcome("payment_failed", "ok")
  /\ \E i \in 1..Len(bookings) :
       /\ bookings[i].status = "confirmed"
       /\ bookings[i].paymentStatus = "failed"
       /\ bookings[i].stripePaymentIntentId /= 0

\* C26: when the call to the payment processor fails in createPaymentIntent
\* or in a refund, the operation answers with a failure, makes no second
\* call, and leaves the booking's paymentStatus, stripePaymentIntentId and
\* refundId and the transactions unchanged.
C26_ProcessorFailureWritesNothing ==
  [][\A id \in BookingIds, u \in Requesters :
       /\ (/\ last'.op = "createPaymentIntent"
           /\ CreateIntentCheck(id, 10000, u) = "ok"
           /\ CreatePaymentIntent(id, 10000, u, FALSE))
          => /\ last'.result = "ExternalProcessorError"
             /\ UNCHANGED <<bookings, transactions, stripe>>
       /\ \A amount \in RefundAmounts :
            (/\ last'.op = "refund"
             /\ RefundCheck(id, u) = "ok"
             /\ RefundPayment(id, amount, u, FALSE))
            => /\ last'.result = "ExternalProcessorError"
               /\ UNCHANGED <<bookings, transactions, stripe>>]_vars

\* A refund of a paid booking has just been refused by the processor.
C26_Witness ==
  /\ last = Outcome("refund", "ExternalProcessorError")
  /\ \E i \in 1..Len(bookings) :
       /\ bookings[i].paymentStatus = "paid"
       /\ bookings[i].stripePaymentId /= 0
       /\ bookings[i].refundId = 0

\* C27: paymentStatus never regresses: no createPaymentIntent sets a paid
\* booking back to pending, and no webhook delivery and no
\* createPaymentIntent sets a refunded or partially_refunded booking to
\* paid, pending or failed.
C27_PaymentStatusNeverRegresses ==
  [][\A i \in 1..Len(bookings) :
       /\ (/\ bookings[i].paymentStatus = "paid"
           /\ last'.op = "createPaymentIntent")
          => bookings'[i].paymentStatus /= "pending"
       /\ (/\ bookings[i].paymentStatus \in {"refunded", "partially_refunded"}
           /\ last'.op \in {"createPaymentIntent", "payment_succeeded",
                            "payment_failed", "webhook"})
          => bookings'[i].paymentStatus \notin {"paid", "pending", "failed"}]_vars

\* C28: of two refund requests for the same paid booking whose steps (read
\* the booking, check paymentStatus, call the processor, write the booking,
\* write the Transaction) interleave, at most one passes the paid check and
\* reaches the processor: the processor is asked for at most one refund of
\* the booking's payment.
C28_AtMostOneRefundReachesProcessor ==
  \A pi \in 1..Len(stripe.intents) :
    Cardinality({r \in 1..Len(stripe.refunds) :
                   stripe.refunds[r].paymentIntent = pi}) <= 1

\* C29: every booking has at most one completed Transaction, also when
\* createPaymentIntent is called more than once for it and payment_succeeded
\* arrives for more than one of its payment intents.
C29_AtMostOneCompletedTransactionPerBooking ==
  \A id \in 1..Len(bookings) :
    Cardinality({t \in 1..Len(transactions) :
                   /\ transactions[t].bookingId = id
                   /\ transactions[t].status = "completed"}) <= 1

\* C30: whenever no webhook handler is in the middle of its execution, every
\* booking whose paymentStatus is paid has a completed Transaction with its
\* bookingId and with the booking's stripePaymentId, even when a write of
\* the handler fails: the booking update and the Transaction insert happen
\* together or not at all.
C30_PaidBookingHasItsTransaction ==
  (\A p \in Slots : inflight[p].pc /= "inserting")
  => \A id \in 1..Len(bookings) :
       bookings[id].paymentStatus = "paid"
       => \E t \in 1..Len(transactions) :
            /\ transactions[t].bookingId = id
            /\ transactions[t].status = "completed"
            /\ transactions[t].stripePaymentId = bookings[id].stripePaymentId
====
